---------------------------- MODULE Spec2Model ----------------------------
(***************************************************************************)
(* A model of the PaperAnalyzerAgent pipeline:                             *)
(*   - OCRProcessor (src/src/ocr_preprocessor.py): the OCR pass-through    *)
(*     to the Mistral API with its on-disk file-hash cache;                *)
(*   - PaperParser (src/src/paper_parser.py): the heuristic parser of the  *)
(*     OCR output and its JSON output file.                                *)
(* Spec is the OCR processor together with the file system it reads;       *)
(* SpecParser is the parser.                                               *)
(***************************************************************************)
EXTENDS Integers, Sequences, FiniteSets, TLC

VARIABLES
    files,          \* the PDF files on disk: path -> [content, mtime] or NoFile
    cache,          \* the cache directory: cache path -> cache file
    cache_enabled,  \* OCRProcessor.cache_enabled
    now,            \* the last value of time.time() observed, in days
    call,           \* the last get_ocr_result call: what it invoked and returned
    changed,        \* history: path -> the file changed since the last call on it
    origin,         \* history: path -> the response of the last pipeline run on it
    nops,           \* number of operations performed so far
    ocr_data,       \* the OCR data handed to the parser
    parser_attrs,   \* the attributes of the PaperParser instance
    out_files,      \* the files written by the parser: name -> JSON text
    pcall           \* the parser call made: arguments, log and outcome

ocrVars == <<files, cache, cache_enabled, now, call, changed, origin, nops>>

parserVars == <<ocr_data, parser_attrs, out_files, pcall>>

vars == <<ocrVars, parserVars>>

----------------------------------------------------------------------------
(* Bounds of the model *)

MaxOps == 3
MaxLen == 4
MaxNow == 1
MaxRev == 2
HashMod == 3

Paths == {"a.pdf", "b.pdf"}

\* File contents: byte strings.  <<1, 2>> and <<2, 1>> have the same digest
\* and the same size.
Contents == {<<1>>, <<1, 2>>, <<2, 1>>}

Mtimes == {1, 2}

MaxAgeDays == {0, 1}

----------------------------------------------------------------------------
(* Values *)

None == [type |-> "None"]

NoFile == [type |-> "NoFile"]

NoCall == [type |-> "NoCall"]

NoData == [type |-> "NoData"]

\* Python truthiness of the values that occur: None is falsy; API objects
\* (pydantic models) and the non-empty dicts read from the cache are truthy.
bool(v) == v.type # "None"

RECURSIVE SumSeq(_)
SumSeq(s) == IF s = <<>> THEN 0 ELSE Head(s) + SumSeq(Tail(s))

\* hashlib.md5(content).hexdigest(): a digest with a finite range, so that
\* distinct contents may collide.
md5(content) == SumSeq(content) % HashMod

\* The (content hash, size, mtime) triple of a file on disk.
FileTriple(f) == <<md5(f.content), Len(f.content), f.mtime>>

----------------------------------------------------------------------------
(* JSON *)

\* ocr_result.model_dump_json(): the JSON text of an OCRResponse
model_dump_json(obj) == [type |-> "text", pages |-> obj.pages, rev |-> obj.rev]

\* json.loads / json.load of a complete JSON text: a dict
json_loads(text) == [type |-> "dict", pages |-> text.pages, rev |-> text.rev]

\* json.dump(dict, f): the JSON text written to the file
json_dump(d) == [type |-> "text", pages |-> d.pages, rev |-> d.rev]

\* what is left in a file when json.dump fails part way
Partial == [type |-> "partial"]

----------------------------------------------------------------------------
(* OCRProcessor *)

\* _get_cache_path: cache_dir / f"{md5}_{st_size}_{st_mtime}.json", or None
\* when the file cannot be read
_get_cache_path_no_mtime(file_path) ==
    IF files[file_path] = NoFile THEN None
    ELSE LET f == files[file_path]
         IN [type |-> "Path",
             name |-> <<md5(f.content), "_", Len(f.content), ".json">>]

_get_cache_path(file_path) ==
    IF files[file_path] = NoFile THEN None
    ELSE LET f == files[file_path]
         IN [type |-> "Path",
             name |-> <<md5(f.content), "_", Len(f.content), "_", f.mtime, ".json">>]

\* _check_cache: the parsed cache file of the file's cache path, or None
_check_cache_never(file_path) == None

_check_cache(file_path) ==
    LET cache_path == _get_cache_path(file_path)
    IN IF bool(cache_path) /\ cache_path \in DOMAIN cache
       THEN IF cache[cache_path].text.type = "text"
            THEN json_loads(cache[cache_path].text)
            ELSE None      \* json.load raised: logged
       ELSE None

\* upload_file: open the file and upload it; None on any exception
upload_file(file_path, api_ok) ==
    IF files[file_path] = NoFile \/ ~api_ok THEN None
    ELSE [type |-> "UploadedFile", content |-> files[file_path].content]

\* get_signed_url: None on any exception
get_signed_url(uploaded_pdf, api_ok) ==
    IF ~api_ok THEN None
    ELSE [type |-> "SignedUrl", content |-> uploaded_pdf.content]

\* process_ocr: the OCRResponse of the document, None on any exception
process_ocr(signed_url, api_ok, rev) ==
    IF ~api_ok THEN None
    ELSE [type |-> "OCRResponse", pages |-> signed_url.content, rev |-> rev]

\* the cache directory after open(cache_path, "w") and a write of text
WriteCacheFile(cache_path, text, src) ==
    [q \in DOMAIN cache \cup {cache_path} |->
        IF q = cache_path THEN [text |-> text, mtime |-> now, src |-> src]
        ELSE cache[q]]

\* _save_to_cache: the cache directory after the call.  io is what the
\* environment lets the write do: "ok", "dump_error" (an exception before the
\* file is opened) or "write_error" (an exception while json.dump writes).
_save_to_cache_inverted(file_path, ocr_result, io) ==
    IF cache_enabled THEN cache
    ELSE LET cache_path == _get_cache_path(file_path)
             src == IF files[file_path] = NoFile THEN <<>>
                    ELSE FileTriple(files[file_path])
         IN IF ~bool(cache_path) \/ io = "dump_error" THEN cache
            ELSE IF io = "write_error"
                 THEN WriteCacheFile(cache_path, Partial, src)
                 ELSE WriteCacheFile(cache_path,
                          json_dump(json_loads(model_dump_json(ocr_result))), src)

_save_to_cache(file_path, ocr_result, io) ==
    IF ~cache_enabled THEN cache
    ELSE LET cache_path == _get_cache_path(file_path)
             src == IF files[file_path] = NoFile THEN <<>>
                    ELSE FileTriple(files[file_path])
         IN IF ~bool(cache_path) \/ io = "dump_error" THEN cache
            ELSE IF io = "write_error"
                 THEN WriteCacheFile(cache_path, Partial, src)
                 ELSE WriteCacheFile(cache_path,
                          json_dump(json_loads(model_dump_json(ocr_result))), src)

SaveOutcomes == {"ok", "dump_error", "write_error"}

\* What the environment does during one call: whether each API request
\* succeeds, which response the OCR service gives, how the cache write ends.
\* A request that is never reached has no outcome, so the fields after the
\* first failing request are fixed.
Envs ==
    {e \in [up : BOOLEAN, url : BOOLEAN, ocr : BOOLEAN, rev : 1..MaxRev, io : SaveOutcomes] :
        /\ ~e.up => ~e.url
        /\ ~e.url => ~e.ocr
        /\ ~e.ocr => e.rev = 1 /\ e.io = "ok"}

NoEnv == [type |-> "NoEnv"]

\* get_ocr_result: the methods invoked in order, the value returned and the
\* cache directory left behind
get_ocr_result_retry(file_path, env) ==
    LET cache_result == _check_cache(file_path)
    IN IF bool(cache_result)
       THEN [steps |-> <<>>, result |-> cache_result, cache |-> cache]
       ELSE LET first == upload_file(file_path, env.up)
                uploaded_pdf == IF bool(first) THEN first ELSE upload_file(file_path, TRUE)
                up_steps == IF bool(first) THEN <<"upload_file">>
                            ELSE <<"upload_file", "upload_file">>
            IN IF ~bool(uploaded_pdf)
               THEN [steps |-> up_steps, result |-> None, cache |-> cache]
               ELSE LET signed_url == get_signed_url(uploaded_pdf, env.url)
                    IN IF ~bool(signed_url)
                       THEN [steps |-> up_steps \o <<"get_signed_url">>,
                             result |-> None, cache |-> cache]
                       ELSE LET ocr_response == process_ocr(signed_url, env.ocr, env.rev)
                            IN [steps |-> up_steps \o <<"get_signed_url", "process_ocr">>,
                                result |-> ocr_response,
                                cache |-> IF bool(ocr_response)
                                          THEN _save_to_cache(file_path, ocr_response, env.io)
                                          ELSE cache]

get_ocr_result_save_early(file_path, env) ==
    LET cache_result == _check_cache(file_path)
    IN IF bool(cache_result)
       THEN [steps |-> <<>>, result |-> cache_result, cache |-> cache]
       ELSE LET uploaded_pdf == upload_file(file_path, env.up)
            IN IF ~bool(uploaded_pdf)
               THEN [steps |-> <<"upload_file">>, result |-> None, cache |-> cache]
               ELSE LET signed_url == get_signed_url(uploaded_pdf, env.url)
                    IN IF ~bool(signed_url)
                       THEN [steps |-> <<"upload_file", "get_signed_url">>,
                             result |-> None, cache |-> cache]
                       ELSE LET ocr_response == process_ocr(signed_url, env.ocr, env.rev)
                                placeholder == [type |-> "OCRResponse",
                                                pages |-> signed_url.content,
                                                rev |-> env.rev]
                            IN [steps |-> <<"upload_file", "get_signed_url", "process_ocr">>,
                                result |-> ocr_response,
                                cache |-> _save_to_cache(file_path, placeholder, env.io)]

get_ocr_result(file_path, env) ==
    LET cache_result == _check_cache(file_path)
    IN IF bool(cache_result)
       THEN [steps |-> <<>>, result |-> cache_result, cache |-> cache]
       ELSE LET uploaded_pdf == upload_file(file_path, env.up)
            IN IF ~bool(uploaded_pdf)
               THEN [steps |-> <<"upload_file">>, result |-> None, cache |-> cache]
               ELSE LET signed_url == get_signed_url(uploaded_pdf, env.url)
                    IN IF ~bool(signed_url)
                       THEN [steps |-> <<"upload_file", "get_signed_url">>,
                             result |-> None, cache |-> cache]
                       ELSE LET ocr_response == process_ocr(signed_url, env.ocr, env.rev)
                            IN [steps |-> <<"upload_file", "get_signed_url", "process_ocr">>,
                                result |-> ocr_response,
                                cache |-> IF bool(ocr_response)
                                          THEN _save_to_cache(file_path, ocr_response, env.io)
                                          ELSE cache]

\* _clean_cache: every cache file older than max_age_days at time t (the
\* value of time.time()) is unlinked
_clean_cache(max_age_days, t) ==
    LET keep == {q \in DOMAIN cache : ~(cache[q].mtime < t - max_age_days)}
    IN [q \in keep |-> cache[q]]

----------------------------------------------------------------------------
(* Actions of Spec *)

FileStates == [type : {"File"}, content : Contents, mtime : Mtimes] \cup {NoFile}

\* The cache file at the path's current cache path, if it holds complete JSON
EntryAt(file_path) ==
    IF /\ files[file_path] # NoFile
       /\ _get_cache_path(file_path) \in DOMAIN cache
       /\ cache[_get_cache_path(file_path)].text.type = "text"
    THEN cache[_get_cache_path(file_path)]
    ELSE None

\* Some cache file holds complete JSON stored for the file's current triple
StoredFor(file_path) ==
    /\ files[file_path] # NoFile
    /\ \E q \in DOMAIN cache :
        /\ cache[q].text.type = "text"
        /\ cache[q].src = FileTriple(files[file_path])

\* OCRProcessor(api_key): the cache directory exists, caching is enabled
Init ==
    /\ files = [p \in Paths |-> IF p = "a.pdf"
                                 THEN [type |-> "File", content |-> <<1>>, mtime |-> 1]
                                 ELSE [type |-> "File", content |-> <<1, 2>>, mtime |-> 1]]
    /\ cache = << >>
    /\ cache_enabled = TRUE
    /\ now = 0
    /\ call = NoCall
    /\ changed = [p \in Paths |-> FALSE]
    /\ origin = [p \in Paths |-> None]
    /\ nops = 0
    /\ ocr_data = NoData
    /\ parser_attrs = << >>
    /\ out_files = << >>
    /\ pcall = NoCall

\* One call processor.get_ocr_result(file_path)
GetOcrResult(file_path) ==
    /\ nops < MaxOps
    /\ \E env \in Envs :
        LET r == get_ocr_result(file_path, env)
            ran == r.steps # <<>>
        IN /\ cache' = r.cache
           /\ call' = [type |-> "Call",
                       path |-> file_path,
                       steps |-> r.steps,
                       result |-> r.result,
                       wrote |-> r.cache # cache,
                       env |-> IF ran THEN env ELSE NoEnv,
                       readable |-> files[file_path] # NoFile,
                       triple |-> IF files[file_path] = NoFile THEN <<>>
                                  ELSE FileTriple(files[file_path]),
                       entry_before |-> EntryAt(file_path),
                       stored_before |-> StoredFor(file_path),
                       changed_before |-> changed[file_path],
                       origin_before |-> origin[file_path]]
           /\ origin' = IF ran /\ bool(r.result) /\ cache_enabled
                        THEN [origin EXCEPT ![file_path] =
                                 [type |-> "Origin",
                                  json |-> json_loads(model_dump_json(r.result)),
                                  saved |-> env.io = "ok"]]
                        ELSE origin
    /\ changed' = [changed EXCEPT ![file_path] = FALSE]
    /\ nops' = nops + 1
    /\ UNCHANGED <<files, cache_enabled, now, parserVars>>

\* The file at file_path is written, touched, replaced or removed
ModifyFile(file_path) ==
    /\ nops < MaxOps
    /\ \E f \in FileStates :
        /\ f # files[file_path]
        /\ files' = [files EXCEPT ![file_path] = f]
    /\ changed' = [changed EXCEPT ![file_path] = TRUE]
    /\ origin' = [origin EXCEPT ![file_path] = None]
    /\ nops' = nops + 1
    /\ UNCHANGED <<cache, cache_enabled, now, call, parserVars>>

\* processor.cache_enabled = b
SetCacheEnabled ==
    /\ cache_enabled' = ~cache_enabled
    /\ UNCHANGED <<files, cache, now, call, changed, origin, nops, parserVars>>

\* processor._clean_cache(max_age_days), called at some time t >= now
CleanCache ==
    /\ nops < MaxOps
    /\ \E max_age_days \in MaxAgeDays, t \in now..MaxNow :
        /\ cache' = _clean_cache(max_age_days, t)
        /\ now' = t
    /\ origin' = [p \in Paths |->
                    IF origin[p] # None /\ origin[p].saved
                       /\ _get_cache_path(p) \notin DOMAIN cache'
                    THEN [origin[p] EXCEPT !.saved = FALSE]
                    ELSE origin[p]]
    /\ nops' = nops + 1
    /\ UNCHANGED <<files, cache_enabled, call, changed, parserVars>>

Next ==
    \/ \E p \in Paths : GetOcrResult(p)
    \/ \E p \in Paths : ModifyFile(p)
    \/ SetCacheEnabled
    \/ CleanCache

Spec == Init /\ [][Next]_vars

----------------------------------------------------------------------------
(* Python values of the parser *)

\* A markdown text is a sequence of characters.  "A" stands for the word
\* "Abstract" (in any case), "x" for a letter.
Chars == {"#", " ", "\n", "A", "x"}

Whitespace == {" ", "\n"}

TitleLimit == 50

RECURSIVE Repeat(_, _)
Repeat(c, n) == IF n = 0 THEN <<>> ELSE <<c>> \o Repeat(c, n - 1)

\* A heading longer than the file name limit
LongTitle == <<"#", " ">> \o Repeat("x", TitleLimit + 1)

Markdowns == UNION {[1..k -> Chars] : k \in 0..MaxLen} \cup {LongTitle}

Str(s) == [kind |-> "str", s |-> s]

Absent == [kind |-> "absent"]      \* the key is not in the dict

Null == [kind |-> "null"]          \* JSON null, Python None

\* An image entry of a page: a dict, or something that is not a dict
Images == {Absent, [kind |-> "list", items |-> <<[kind |-> "dict", id |-> <<"x">>]>>],
           [kind |-> "list", items |-> <<Null>>]}

Page(markdown, images) == [kind |-> "dict", markdown |-> markdown, images |-> images]

MarkdownValues == {Str(m) : m \in Markdowns} \cup {Absent, Null}

FirstPages == {Page(m, Absent) : m \in MarkdownValues} \cup {Str(<<"x">>)}

\* The pages that may follow a first page
OtherPages == {Str(<<"x">>), Page(Null, Absent), Page(Str(<<"x">>), Absent)}
              \cup {Page(Str(<<"x">>), i) : i \in Images}

SomeFirstPages == {Page(Str(<<"#", " ", "x">>), Absent), Page(Str(<<"A", " ", "\n", "#">>), Absent),
                   Page(Null, Absent), Page(Str(<<"x">>), [kind |-> "list", items |-> <<Null>>])}

List(items) == [kind |-> "list", items |-> items]

\* The dicts handed to parse_paper: without "pages", with pages null, with
\* an empty list, with one page, with two pages
OcrInputs ==
    {[kind |-> "dict", pages |-> v] : v \in {Absent, Null, List(<<>>)}}
    \cup {[kind |-> "dict", pages |-> List(<<p>>)] : p \in FirstPages}
    \cup {[kind |-> "dict", pages |-> List(<<p, q>>)] : p \in SomeFirstPages, q \in OtherPages}

\* The outcome of a Python call: a returned value or a raised exception
\* (value is what the function had built when the exception was raised),
\* and the messages it logged with logger.error
Ret(v) == [raised |-> FALSE, value |-> v, exc |-> "none", log |-> <<>>]

Raise(e, sofar) == [raised |-> TRUE, value |-> sofar, exc |-> e, log |-> <<>>]

\* try: body / except Exception as e: logger.error(msg); return default
TryExcept(body, msg, default) ==
    IF body.raised
    THEN [raised |-> FALSE, value |-> default, exc |-> "none",
          log |-> Append(body.log, msg)]
    ELSE body

\* try: body / except Exception as e: logger.error(msg); return what the
\* function had built so far
TryExceptSoFar(body, msg) == TryExcept(body, msg, body.value)

\* a or b, for matches: the first if it matched, else the second
OrElse(a, b) == IF a # <<>> THEN a ELSE b

----------------------------------------------------------------------------
(* String operations *)

\* s.strip()
RECURSIVE lstrip(_)
lstrip(s) == IF s # <<>> /\ Head(s) \in Whitespace THEN lstrip(Tail(s)) ELSE s

RECURSIVE rstrip(_)
rstrip(s) ==
    IF s # <<>> /\ s[Len(s)] \in Whitespace THEN rstrip(SubSeq(s, 1, Len(s) - 1)) ELSE s

strip(s) == rstrip(lstrip(s))

\* s.split('\n'): the lines of s, at least one
RECURSIVE split_lines(_, _)
split_lines(s, line) ==
    IF s = <<>> THEN <<line>>
    ELSE IF Head(s) = "\n" THEN <<line>> \o split_lines(Tail(s), <<>>)
    ELSE split_lines(Tail(s), Append(line, Head(s)))

\* line.startswith(prefix)
startswith(line, prefix) ==
    Len(line) >= Len(prefix) /\ SubSeq(line, 1, Len(prefix)) = prefix

\* c.isalnum()
isalnum(c) == c \notin {"#", " ", "\n", "_", "."}

----------------------------------------------------------------------------
(* PaperParser: the extractors *)

TitleNotFound ==
    <<"T", "i", "t", "l", "e", " ", "n", "o", "t", " ", "f", "o", "u", "n", "d">>

AbstractNotFound == <<"Abstract not found">>

\* first_page.get("markdown", "")
GetMarkdown(page) == IF page.markdown = Absent THEN Str(<<>>) ELSE page.markdown

\* The first line of lines that starts with "# ", 0 if there is none
FirstHeading(lines) ==
    LET hs == {i \in DOMAIN lines : startswith(lines[i], <<"#", " ">>)}
    IN IF hs = {} THEN 0 ELSE CHOOSE i \in hs : \A j \in hs : i <= j

\* The title among the lines of the first page: the first "# " line without
\* its mark, else the first line
TitleOfLines(lines, h) ==
    IF h # 0 THEN strip(SubSeq(lines[h], 3, Len(lines[h]))) ELSE strip(lines[1])

TitleOf(lines) == TitleOfLines(lines, FirstHeading(lines))

\* The body of _extract_title, inside its try
_extract_title_body(d) ==
    IF d.pages = Absent THEN Ret(TitleNotFound)
    ELSE IF d.pages.kind # "list" THEN Raise("TypeError", TitleNotFound)      \* len(None)
    ELSE IF Len(d.pages.items) = 0 THEN Ret(TitleNotFound)
    ELSE IF d.pages.items[1].kind # "dict"
    THEN Raise("AttributeError", TitleNotFound)                               \* .get
    ELSE IF GetMarkdown(d.pages.items[1]).kind # "str"
    THEN Raise("AttributeError", TitleNotFound)                               \* .split
    ELSE Ret(TitleOf(split_lines(GetMarkdown(d.pages.items[1]).s, <<>>)))

_extract_title_unguarded(d) == _extract_title_body(d)

_extract_title(d) ==
    TryExcept(_extract_title_body(d), "Error extracting title", TitleNotFound)

\* The lookahead (?=\n\n\n|\n##|\n#) at position e of s
AbstractEnd(s, e) ==
    \/ e + 2 <= Len(s) /\ s[e] = "\n" /\ s[e + 1] = "\n" /\ s[e + 2] = "\n"
    \/ e + 1 <= Len(s) /\ s[e] = "\n" /\ s[e + 1] = "#"

\* The number of characters of s from position i on that lie in set, up to
\* the first that does not
RECURSIVE Run(_, _, _)
Run(s, i, set) == IF i <= Len(s) /\ s[i] \in set THEN 1 + Run(s, i + 1, set) ELSE 0

\* (.*?)(?=...) from position j: the position where the shortest group ends,
\* 0 if the lookahead matches nowhere from j on
LazyEnd(s, j) ==
    LET es == {e \in j..Len(s) : AbstractEnd(s, e)}
    IN IF es = {} THEN 0 ELSE CHOOSE e \in es : \A f \in es : e <= f

\* (?:\n+|\s+)(.*?)(?=...) after the word at position a: the start positions
\* of the group in the order the regex engine tries them (\n+ greedy, then
\* \s+ greedy), and the group of the first that matches, or Null
GroupStarts(a, n1, n2) ==
    [i \in 1..n1 |-> a + 1 + (n1 + 1 - i)] \o [i \in 1..n2 |-> a + 1 + (n2 + 1 - i)]

GroupFrom(s, j, e) == IF e = 0 THEN Null ELSE Str(SubSeq(s, j, e - 1))

FirstGroup(s, starts, ok) ==
    IF ok = {} THEN Null
    ELSE GroupFrom(s, starts[CHOOSE i \in ok : \A j \in ok : i <= j],
                   LazyEnd(s, starts[CHOOSE i \in ok : \A j \in ok : i <= j]))

GroupAmong(s, starts) ==
    FirstGroup(s, starts, {i \in DOMAIN starts : LazyEnd(s, starts[i]) # 0})

AbstractGroup(s, a) ==
    GroupAmong(s, GroupStarts(a, Run(s, a + 1, {"\n"}), Run(s, a + 1, Whitespace)))

\* re.search(r'(?:####\s*Abstract|Abstract)(?:\n+|\s+)(.*?)(?=\n\n\n|\n##|\n#)',
\* markdown, DOTALL | IGNORECASE): group(1) of the leftmost match, or Null.
\* Both alternatives end at the word, so the match is decided by the first
\* occurrence of the word after which the rest of the pattern matches.
FirstAbstract(s, as) ==
    IF as = {} THEN Null ELSE AbstractGroup(s, CHOOSE a \in as : \A b \in as : a <= b)

AbstractSearch(s) ==
    FirstAbstract(s, {a \in DOMAIN s : s[a] = "A" /\ AbstractGroup(s, a) # Null})

\* abstract_match.group(1).strip() if abstract_match else "Abstract not found"
AbstractOf(abstract_match) ==
    IF abstract_match # Null THEN strip(abstract_match.s) ELSE AbstractNotFound

\* The body of _extract_abstract, inside its try
_extract_abstract_body(d) ==
    IF d.pages = Absent THEN Ret(AbstractNotFound)
    ELSE IF d.pages.kind # "list" THEN Raise("TypeError", AbstractNotFound)
    ELSE IF Len(d.pages.items) = 0 THEN Ret(AbstractNotFound)
    ELSE IF d.pages.items[1].kind # "dict"
    THEN Raise("AttributeError", AbstractNotFound)
    ELSE IF GetMarkdown(d.pages.items[1]).kind # "str"
    THEN Raise("TypeError", AbstractNotFound)                                 \* re.search
    ELSE Ret(AbstractOf(AbstractSearch(GetMarkdown(d.pages.items[1]).s)))

_extract_abstract(d) ==
    TryExcept(_extract_abstract_body(d), "Error extracting abstract", AbstractNotFound)

\* The position of the first "\n" of s at or after p, Len(s) + 1 if none
RECURSIVE LineEnd(_, _)
LineEnd(s, p) == IF p > Len(s) \/ s[p] = "\n" THEN p ELSE LineEnd(s, p + 1)

\* #{1,2}\s+([^\n]+)(?:\n|$) from position i, with h "#" characters: \s+ is
\* greedy and gives back one character at a time until [^\n]+ can start.
\* The match [start of the group, end of the group, end of the match], or
\* <<>>.  [^\n]+ runs to the end of the line, where (?:\n|$) always matches.
HeaderGroup(s, p, q) == <<p, q - 1, IF q <= Len(s) THEN q + 1 ELSE q>>

HeaderAfter(s, p) == HeaderGroup(s, p, LineEnd(s, p))

HeaderAmong(s, from, ok) ==
    IF ok = {} THEN <<>>
    ELSE HeaderAfter(s, from + CHOOSE n \in ok : \A m \in ok : m <= n)

HeaderWith(s, i, h) ==
    IF ~(i + h - 1 <= Len(s) /\ \A k \in i..(i + h - 1) : s[k] = "#") THEN <<>>
    ELSE HeaderAmong(s, i + h,
             {n \in 1..Run(s, i + h, Whitespace) :
                 i + h + n <= Len(s) /\ s[i + h + n] # "\n"})

\* (?:#{1,2}\s+|(?:\d+\.)\s+)([^\n]+)(?:\n|$) from position i: two "#" are
\* tried before one; the texts modelled hold no digits
HeaderFrom(s, i) == OrElse(HeaderWith(s, i, 2), HeaderWith(s, i, 1))

\* The section pattern (?:^|\n)(?:#{1,2}\s+|...)([^\n]+)(?:\n|$) with
\* MULTILINE, tried at position i: ^ before a consumed "\n"
SectionMatchAt(s, i) ==
    OrElse(IF i = 1 \/ (i - 1 <= Len(s) /\ s[i - 1] = "\n") THEN HeaderFrom(s, i) ELSE <<>>,
           IF i <= Len(s) /\ s[i] = "\n" THEN HeaderFrom(s, i + 1) ELSE <<>>)

\* re.finditer(section_pattern, s) from position pos on: the matches as
\* [start, group start, group end, end]
RECURSIVE SectionMatches(_, _)
MatchAndRest(s, i, m) ==
    <<[start |-> i, g1 |-> m[1], g2 |-> m[2], end |-> m[3]]>> \o SectionMatches(s, m[3])

FirstMatch(s, i) == MatchAndRest(s, i, SectionMatchAt(s, i))

MatchesAmong(s, starts) ==
    IF starts = {} THEN <<>>
    ELSE FirstMatch(s, CHOOSE i \in starts : \A j \in starts : i <= j)

SectionMatches(s, pos) ==
    MatchesAmong(s, {i \in pos..(Len(s) + 1) : SectionMatchAt(s, i) # <<>>})

\* re.sub(r'^(?:#{1,2}\s+|...)([^\n]+)(?:\n|$)', '', content, 1)
CutMatch(content, m) == IF m = <<>> THEN content ELSE SubSeq(content, m[3], Len(content))

RemoveTitle(content) == CutMatch(content, HeaderFrom(content, 1))

\* text.split('\n\n')
RECURSIVE split_paragraphs(_, _)
split_paragraphs(s, par) ==
    IF s = <<>> THEN <<par>>
    ELSE IF Len(s) >= 2 /\ s[1] = "\n" /\ s[2] = "\n"
    THEN <<par>> \o split_paragraphs(SubSeq(s, 3, Len(s)), <<>>)
    ELSE split_paragraphs(Tail(s), Append(par, Head(s)))

\* [p.strip() for p in pars if p.strip()]
RECURSIVE StrippedNonEmpty(_)
StrippedNonEmpty(pars) ==
    IF pars = <<>> THEN <<>>
    ELSE IF strip(Head(pars)) = <<>> THEN StrippedNonEmpty(Tail(pars))
    ELSE <<strip(Head(pars))>> \o StrippedNonEmpty(Tail(pars))

\* sub in text
Contains(text, sub) ==
    \E i \in 1..(Len(text) - Len(sub) + 1) : SubSeq(text, i, i + Len(sub) - 1) = sub

\* The image dict a section holds for img, found on page page_idx
ImageOf(page_idx, img) ==
    [page |-> page_idx, id |-> img.id, base64 |-> <<>>,
     coordinates |-> [top_left_x |-> 0, top_left_y |-> 0,
                      bottom_right_x |-> 0, bottom_right_y |-> 0]]

\* full_markdown += markdown + "\n\n" over the pages
RECURSIVE FullMarkdown(_)
FullMarkdown(pages) ==
    IF pages = <<>> THEN <<>>
    ELSE GetMarkdown(Head(pages)).s \o <<"\n", "\n">> \o FullMarkdown(Tail(pages))

\* A page the loop over the pages raises on: not a dict (page.get), or with a
\* markdown that is no string (markdown + "\n\n")
BadPage(page) == page.kind # "dict" \/ GetMarkdown(page).kind # "str"

\* images_by_page after the loop: the pages carry no "index", so every page
\* with images is stored under index 0 and the last one stays
RECURSIVE ImagesByPage(_)
ImagesByPage(pages) ==
    IF pages = <<>> THEN <<>>
    ELSE IF pages[Len(pages)].images # Absent /\ pages[Len(pages)].images.items # <<>>
    THEN pages[Len(pages)].images.items
    ELSE ImagesByPage(SubSeq(pages, 1, Len(pages) - 1))

\* The images of one section: those whose id occurs in its content (all of
\* them for the "Document" section)
RECURSIVE SectionImages(_, _, _)
SectionImages(images, content, all) ==
    IF images = <<>> THEN <<>>
    ELSE IF all \/ (Head(images).id # <<>> /\ Contains(content, Head(images).id))
    THEN <<ImageOf(0, Head(images))>> \o SectionImages(Tail(images), content, all)
    ELSE SectionImages(Tail(images), content, all)

\* The section dict built from a title and the content under it
SectionDict(section_title, section_content, images) ==
    [title |-> section_title,
     text |-> StrippedNonEmpty(split_paragraphs(section_content, <<>>)),
     images |-> SectionImages(images, section_content, FALSE),
     formulas |-> <<>>]

\* The section dict of match i of ms in full_markdown
SectionOf(full_markdown, ms, i, images) ==
    SectionDict(strip(SubSeq(full_markdown, ms[i].g1, ms[i].g2)),
                RemoveTitle(strip(SubSeq(full_markdown, ms[i].start,
                    IF i < Len(ms) THEN ms[i + 1].start - 1 ELSE Len(full_markdown)))),
                images)

\* The sections of full_markdown, given the header matches and the images
SectionsOf(full_markdown, section_matches, images) ==
    IF \E k \in DOMAIN images : images[k].kind # "dict"
    THEN Raise("AttributeError", <<>>)                                \* img.get
    ELSE IF section_matches = <<>>
    THEN Ret(<<[title |-> <<"Document">>,
                text |-> <<strip(full_markdown)>>,
                images |-> SectionImages(images, <<>>, TRUE),
                formulas |-> <<>>]>>)
    ELSE Ret([i \in DOMAIN section_matches |->
                 SectionOf(full_markdown, section_matches, i, images)])

SectionsOfText(full_markdown, images) ==
    SectionsOf(full_markdown, SectionMatches(full_markdown, 1), images)

\* The body of _extract_sections, inside its try
_extract_sections_body(d) ==
    IF d.pages = Absent THEN Ret(<<>>)
    ELSE IF d.pages.kind # "list" THEN Raise("TypeError", <<>>)      \* for page in None
    ELSE IF \E i \in DOMAIN d.pages.items : BadPage(d.pages.items[i])
    THEN Raise("TypeError", <<>>)
    ELSE SectionsOfText(FullMarkdown(d.pages.items), ImagesByPage(d.pages.items))

_extract_sections(d) ==
    TryExceptSoFar(_extract_sections_body(d), "Error extracting sections")

\* The body of _extract_references, inside its try.  The texts modelled do
\* not hold the word "References", so ref_match is None.
_extract_references_body(d) ==
    IF d.pages = Absent THEN Ret(<<>>)
    ELSE IF d.pages.kind # "list" THEN Raise("TypeError", <<>>)
    ELSE IF \E i \in DOMAIN d.pages.items : BadPage(d.pages.items[i])
    THEN Raise("TypeError", <<>>)
    ELSE Ret(<<>>)

_extract_references(d) ==
    TryExceptSoFar(_extract_references_body(d), "Error extracting references")

EmptyMetadata ==
    [authors |-> <<>>, affiliations |-> <<>>, keywords |-> <<>>,
     doi |-> <<>>, publication_date |-> <<>>, journal |-> <<>>]

\* The body of _extract_metadata, inside its try: it calls _extract_title and
\* searches the first page.  The texts modelled hold no ",", "<br>",
\* "keywords" or "doi", so nothing is collected.
_extract_metadata_body(d) ==
    IF d.pages = Absent THEN Ret(EmptyMetadata)
    ELSE IF d.pages.kind # "list" THEN Raise("TypeError", EmptyMetadata)
    ELSE IF Len(d.pages.items) = 0 THEN Ret(EmptyMetadata)
    ELSE IF d.pages.items[1].kind # "dict" THEN Raise("AttributeError", EmptyMetadata)
    ELSE IF GetMarkdown(d.pages.items[1]).kind # "str"
    THEN [Raise("TypeError", EmptyMetadata) EXCEPT !.log = _extract_title(d).log]
    ELSE [Ret(EmptyMetadata) EXCEPT !.log = _extract_title(d).log]

_extract_metadata(d) ==
    TryExceptSoFar(_extract_metadata_body(d), "Error extracting metadata")

----------------------------------------------------------------------------
(* PaperParser: parse_paper, parse_from_file *)

StructureKeys == {"title", "abstract", "sections", "references", "metadata"}

\* "".join(c if c.isalnum() else "_" for c in title)
safe_chars(title) == [i \in DOMAIN title |-> IF isalnum(title[i]) THEN title[i] ELSE "_"]

\* safe_title[:50] if safe_title else "parsed_paper"
safe_title(title) ==
    IF safe_chars(title) = <<>> THEN <<"parsed_paper">>
    ELSE SubSeq(safe_chars(title), 1,
                IF Len(title) < TitleLimit THEN Len(title) ELSE TitleLimit)

\* f"parsed_{name}.json"
parsed_name(name) == <<"parsed_">> \o name \o <<".json">>

\* _save_parsed_data: json.dump of data into output_path; an I/O error is
\* logged and raised again.  value is the directory after the call.
_save_parsed_data(data, output_path, io) ==
    IF io = "ok"
    THEN Ret([q \in DOMAIN out_files \cup {output_path} |->
                 IF q = output_path THEN [type |-> "text", data |-> data]
                 ELSE out_files[q]])
    ELSE [Raise("OSError", out_files) EXCEPT !.log = <<"Error saving data">>]

\* The except clause of parse_paper and parse_from_file: log, raise again
LogAndRaise(log, msg, exc) ==
    [raised |-> TRUE, value |-> Null, exc |-> exc, log |-> Append(log, msg),
     files |-> out_files]

\* The outcome of a call that returns paper_structure
Returned(paper_structure, log, dir) ==
    [raised |-> FALSE, value |-> paper_structure, exc |-> "none", log |-> log,
     files |-> dir]

\* The rest of parse_paper once _save_parsed_data has run
AfterSave(paper_structure, log, saved) ==
    IF saved.raised
    THEN LogAndRaise(log \o saved.log, "Error parsing paper", saved.exc)
    ELSE Returned(paper_structure, Append(log, "Parsed data saved"), saved.value)

\* output_path = self.output_dir / output_filename, then the save
SaveAs(paper_structure, log, name, io) ==
    IF "output_dir" \notin DOMAIN parser_attrs
    THEN LogAndRaise(log, "Error parsing paper", "AttributeError")
    ELSE AfterSave(paper_structure, log,
             _save_parsed_data(paper_structure,
                 [dir |-> parser_attrs["output_dir"], name |-> name], io))

\* The part of parse_paper after paper_structure is built
SaveOutput(paper_structure, log, save_output, output_filename, io) ==
    IF ~save_output THEN Returned(paper_structure, log, out_files)
    ELSE SaveAs(paper_structure, log,
                IF output_filename = Null
                THEN parsed_name(safe_title(paper_structure.title))
                ELSE output_filename.s,
                io)

\* The first of the extractor outcomes that raised, 0 if none did
FirstRaised(parts) ==
    IF \A i \in DOMAIN parts : ~parts[i].raised THEN 0
    ELSE CHOOSE i \in DOMAIN parts : parts[i].raised /\ \A j \in 1..(i - 1) : ~parts[j].raised

\* parse_paper, given the outcomes of the five extractors in call order
Assemble(parts, failed, save_output, output_filename, io) ==
    IF failed # 0
    THEN LogAndRaise(<<>>, "Error parsing paper", parts[failed].exc)
    ELSE SaveOutput([title |-> parts[1].value, abstract |-> parts[2].value,
                     sections |-> parts[3].value, references |-> parts[4].value,
                     metadata |-> parts[5].value],
                    parts[1].log \o parts[2].log \o parts[3].log \o parts[4].log
                        \o parts[5].log,
                    save_output, output_filename, io)

AssembleParts(parts, save_output, output_filename, io) ==
    Assemble(parts, FirstRaised(parts), save_output, output_filename, io)

\* parse_paper: the outcome, with the output directory it leaves in files
parse_paper(d, save_output, output_filename, io) ==
    AssembleParts(<<_extract_title(d), _extract_abstract(d), _extract_sections(d),
                    _extract_references(d), _extract_metadata(d)>>,
                  save_output, output_filename, io)

\* A JSON file path and Path(json_file_path).stem
JsonPath == [dir |-> "cache", stem |-> <<"paper">>, suffix |-> ".json"]

stem(path) == path.stem

\* The input file of parse_from_file: missing, not JSON, or the JSON of d
JsonFiles(d) == {[kind |-> "missing"], [kind |-> "invalid"], [kind |-> "json", data |-> d]}

\* except Exception as e: logger.error(msg); raise
Reraise(r, msg) == IF r.raised THEN LogAndRaise(r.log, msg, r.exc) ELSE r

\* parse_from_file
parse_from_file(json_file_path, file, save_output, output_filename, io) ==
    IF file.kind = "missing"
    THEN LogAndRaise(<<>>, "Error reading JSON file", "FileNotFoundError")
    ELSE IF file.kind = "invalid"
    THEN LogAndRaise(<<>>, "Error reading JSON file", "JSONDecodeError")
    ELSE Reraise(parse_paper(file.data, save_output,
                             IF save_output /\ output_filename = Null
                             THEN Str(parsed_name(stem(json_file_path)))
                             ELSE output_filename,
                             io),
                 "Error reading JSON file")

----------------------------------------------------------------------------
(* Actions of SpecParser *)

Filenames == {Null, Str(<<"out.json">>)}

IoOutcomes == {"ok", "error"}

\* parser = PaperParser(output_dir): __init__ holds a docstring only, so the
\* instance has no attributes
InitParser ==
    /\ files = [p \in Paths |-> NoFile]
    /\ cache = << >>
    /\ cache_enabled = TRUE
    /\ now = 0
    /\ call = NoCall
    /\ changed = [p \in Paths |-> FALSE]
    /\ origin = [p \in Paths |-> None]
    /\ nops = 0
    /\ ocr_data \in OcrInputs
    /\ parser_attrs = << >>
    /\ out_files = << >>
    /\ pcall = NoCall

\* The call and its outcome r are recorded, the files it wrote are on disk
Record(op, save_output, output_filename, file, io, r) ==
    /\ pcall' = [type |-> "Call", op |-> op,
                 save_output |-> save_output,
                 output_filename |-> output_filename,
                 file |-> file, io |-> io,
                 raised |-> r.raised, value |-> r.value,
                 exc |-> r.exc, log |-> r.log]
    /\ out_files' = r.files

\* parser.parse_paper(ocr_data, save_output, output_filename)
ParsePaper ==
    /\ pcall = NoCall
    /\ \E save_output \in BOOLEAN, output_filename \in Filenames, io \in IoOutcomes :
        Record("parse_paper", save_output, output_filename, Null, io,
               parse_paper(ocr_data, save_output, output_filename, io))
    /\ UNCHANGED <<ocr_data, parser_attrs, ocrVars>>

\* parser.parse_from_file(json_file_path, save_output, output_filename)
ParseFromFile ==
    /\ pcall = NoCall
    /\ \E file \in JsonFiles(ocr_data), save_output \in BOOLEAN,
          output_filename \in Filenames, io \in IoOutcomes :
        Record("parse_from_file", save_output, output_filename, file, io,
               parse_from_file(JsonPath, file, save_output, output_filename, io))
    /\ UNCHANGED <<ocr_data, parser_attrs, ocrVars>>

NextParser ==
    \/ ParsePaper
    \/ ParseFromFile

SpecParser == InitParser /\ [][NextParser]_vars

----------------------------------------------------------------------------
(* Claims about OCRProcessor, checked under Spec *)

IsCall == call.type = "Call"

Hit == IsCall /\ call.steps = <<>>

Miss == IsCall /\ call.steps # <<>>

Pipeline == <<"upload_file", "get_signed_url", "process_ocr">>

Count(name, steps) == Cardinality({i \in DOMAIN steps : steps[i] = name})

\* C1: get_ocr_result checks the cache first: when a readable cache entry
\* exists for the file's current cache key, the call returns the cached data,
\* invokes none of upload_file, get_signed_url and process_ocr, and leaves
\* the cache as it was.
C1_CacheFirst ==
    (IsCall /\ call.entry_before # None) =>
        /\ call.result = json_loads(call.entry_before.text)
        /\ call.steps = <<>>
        /\ ~call.wrote

C1_Witness ==
    /\ IsCall
    /\ call.entry_before # None
    /\ call.result = json_loads(call.entry_before.text)

C3_Original ==
    /\ Hit => call.entry_before.src = call.triple
    /\ (IsCall /\ call.changed_before) => Miss
    /\ (IsCall /\ call.stored_before) => Hit

\* C3 amended: a call returns only a result stored for the file's current
\* triple; a call after the file changed is a miss unless an entry stored for
\* the new triple already exists; a call on any path whose triple has a
\* readable entry, stored through whichever path, is a hit.
C3_KeyedByTriple ==
    /\ Hit => call.entry_before # None /\ call.entry_before.src = call.triple
    /\ (IsCall /\ call.changed_before /\ ~call.stored_before) => Miss
    /\ (IsCall /\ call.stored_before) => Hit

C3_Witness ==
    /\ Hit
    /\ call.changed_before
    /\ call.entry_before.src = call.triple
    /\ origin[call.path] = None

\* C6: no retry: within one call each of upload_file, get_signed_url and
\* process_ocr is invoked at most once, also after it failed.
C6_NoRetry ==
    IsCall => \A name \in {"upload_file", "get_signed_url", "process_ocr"} :
                  Count(name, call.steps) <= 1

C6_Witness ==
    /\ Miss
    /\ call.readable
    /\ ~call.env.up
    /\ call.steps = <<"upload_file">>

\* C8: on a miss the steps run in the order upload_file, get_signed_url,
\* process_ocr and stop at the first that fails: the call then returns None,
\* invokes no later step and leaves the cache unchanged; the cache is written
\* only after process_ocr succeeded.
C8_StopAtFirstFailure ==
    Miss =>
        LET up_ok == call.readable /\ call.env.up
            url_ok == up_ok /\ call.env.url
            ocr_ok == url_ok /\ call.env.ocr
        IN /\ call.steps = SubSeq(Pipeline, 1, Len(call.steps))
           /\ ~up_ok => call.steps = <<"upload_file">>
           /\ (up_ok /\ ~url_ok) => call.steps = <<"upload_file", "get_signed_url">>
           /\ url_ok => call.steps = Pipeline
           /\ ~ocr_ok => call.result = None /\ ~call.wrote
           /\ ocr_ok => call.result.type = "OCRResponse"
           /\ call.wrote => ocr_ok /\ call.steps = Pipeline

C8_Witness ==
    /\ Miss
    /\ call.readable
    /\ call.env.up
    /\ ~call.env.url
    /\ call.steps = <<"upload_file", "get_signed_url">>
    /\ call.result = None
    /\ cache # << >>

----------------------------------------------------------------------------
(* Claims about PaperParser, checked under SpecParser *)

IsParse(op) == pcall.type = "Call" /\ pcall.op = op

\* What an extractor returns: the value of its body, or on a failure of the
\* body the value given for that case
FieldOf(body, on_failure) == IF body.raised THEN on_failure ELSE body.value

\* A file of the output directory named name holds data
Saved(name, data) ==
    \E q \in DOMAIN out_files :
        q.name = name /\ out_files[q] = [type |-> "text", data |-> data]

\* C4: parse_paper with save_output=False never raises and returns a
\* structure with exactly the keys title, abstract, sections, references and
\* metadata; each field is decided by its own extractor alone: the value of
\* the extractor's body, or on a failure of that body "Title not found",
\* "Abstract not found", the sections, the references or the metadata
\* collected until the failure.
C4_FiveFieldsNoRaise ==
    (IsParse("parse_paper") /\ ~pcall.save_output) =>
        /\ ~pcall.raised
        /\ DOMAIN pcall.value = StructureKeys
        /\ pcall.value.title = FieldOf(_extract_title_body(ocr_data), TitleNotFound)
        /\ pcall.value.abstract =
               FieldOf(_extract_abstract_body(ocr_data), AbstractNotFound)
        /\ pcall.value.sections = _extract_sections_body(ocr_data).value
        /\ pcall.value.references = _extract_references_body(ocr_data).value
        /\ pcall.value.metadata = _extract_metadata_body(ocr_data).value

C4_Witness ==
    /\ IsParse("parse_paper")
    /\ ~pcall.save_output
    /\ ~pcall.raised
    /\ _extract_sections_body(ocr_data).raised
    /\ ~_extract_title_body(ocr_data).raised
    /\ pcall.value.title = <<"x">>
    /\ pcall.value.sections = <<>>
    /\ pcall.value.abstract = AbstractNotFound

\* C5 as stated: parse_paper with save_output=True on a parser built by
\* PaperParser(output_dir) saves the structure in the output directory and
\* returns it; without output_filename the file is named
\* "parsed_<safe_title>.json".
C5_SavesAndReturns ==
    (IsParse("parse_paper") /\ pcall.save_output /\ pcall.io = "ok") =>
        /\ ~pcall.raised
        /\ DOMAIN pcall.value = StructureKeys
        /\ Saved(IF pcall.output_filename = Null
                 THEN parsed_name(safe_title(pcall.value.title))
                 ELSE pcall.output_filename.s,
                 pcall.value)

\* C7 as stated: parse_from_file with its default arguments reads the JSON
\* file, parses it, saves the result as "parsed_<stem>.json" and returns the
\* structure; an error while reading the file is logged and raised again.
C7_ParsesSavesReturns ==
    (IsParse("parse_from_file") /\ pcall.save_output /\ pcall.output_filename = Null) =>
        /\ (pcall.file.kind = "json" /\ pcall.io = "ok") =>
               /\ ~pcall.raised
               /\ DOMAIN pcall.value = StructureKeys
               /\ Saved(parsed_name(stem(JsonPath)), pcall.value)
        /\ pcall.file.kind # "json" =>
               /\ pcall.raised
               /\ pcall.log = <<"Error reading JSON file">>

=============================================================================
